---- MODULE Spec2Model ----
(***************************************************************************)
(* The static site build of build.py: build_site() walks NAV_STRUCTURE,    *)
(* converts each existing Markdown source and writes one HTML page per     *)
(* Page node into the output directory.                                    *)
(*                                                                         *)
(* A text is a sequence of chunks (strings) whose concatenation is the     *)
(* string the program holds; a placeholder token of the template is always *)
(* a chunk of its own.  A path is a sequence of chunks too: its segments,  *)
(* the separators "/" and the suffix ".md" or ".html".  str.replace works  *)
(* on chunks: every chunk equal to the old text is replaced by the chunks  *)
(* of the new text, and what was inserted is not scanned again.            *)
(***************************************************************************)
EXTENDS Integers, Sequences, FiniteSets, TLC

\* Number of build_site() invocations in one behaviour.
MaxRuns == 2

\* Number of files of docs/ (the first ones of VolatileFiles) that may be
\* absent, created, rewritten or removed.
NumVolatile == 2

\* Number of changes made to docs/ in one behaviour.
MaxEdits == 1

NAV_STRUCTURE ==
  <<
    [title |-> "Home",
     path |-> <<"index", ".md">>],
    [title |-> "Getting Started",
     path |-> <<"getting-started", ".md">>],
    [title |-> "Architecture",
     children |-> <<
        [title |-> "Overview",
         path |-> <<"architecture", "/", "overview", ".md">>],
        [title |-> "State Management",
         path |-> <<"architecture", "/", "state-management", ".md">>],
        [title |-> "Camera Pipeline",
         path |-> <<"architecture", "/", "camera-pipeline", ".md">>],
        [title |-> "Metadata & SQLite",
         path |-> <<"architecture", "/", "metadata-sqlite", ".md">>],
        [title |-> "Decisions",
         children |-> <<
            [title |-> "ADR-0001 Nim Language",
             path |-> <<"architecture", "/", "decisions", "/", "ADR-0001-nim-language", ".md">>],
            [title |-> "ADR-0002 Corun Framework",
             path |-> <<"architecture", "/", "decisions", "/", "ADR-0002-corun-framework", ".md">>],
            [title |-> "ADR-0003 Observable State",
             path |-> <<"architecture", "/", "decisions", "/", "ADR-0003-observable-state", ".md">>] >>] >>],
    [title |-> "API Reference",
     children |-> <<
        [title |-> "Overview",
         path |-> <<"api", "/", "README", ".md">>],
        [title |-> "WebSocket API",
         path |-> <<"api", "/", "websocket-api", ".md">>],
        [title |-> "HTTP API",
         path |-> <<"api", "/", "http-api", ".md">>],
        [title |-> "RTSP Streaming",
         path |-> <<"api", "/", "rtsp-streaming", ".md">>],
        [title |-> "Examples",
         children |-> <<
            [title |-> "Python Client",
             path |-> <<"api", "/", "examples", "/", "python-client", ".md">>],
            [title |-> "JavaScript Client",
             path |-> <<"api", "/", "examples", "/", "javascript-client", ".md">>],
            [title |-> "C# Client",
             path |-> <<"api", "/", "examples", "/", "csharp-client", ".md">>] >>] >>],
    [title |-> "Configuration",
     children |-> <<
        [title |-> "Environments",
         path |-> <<"configuration", "/", "environments", ".md">>],
        [title |-> "Factory Config",
         path |-> <<"configuration", "/", "factory-config", ".md">>],
        [title |-> "License Config",
         path |-> <<"configuration", "/", "license-config", ".md">>],
        [title |-> "Deployment Variants",
         path |-> <<"configuration", "/", "deployment-variants", ".md">>],
        [title |-> "Camera System",
         path |-> <<"configuration", "/", "camera-system", ".md">>],
        [title |-> "Network",
         path |-> <<"configuration", "/", "network", ".md">>],
        [title |-> "Storage & Backup",
         path |-> <<"configuration", "/", "storage-backup", ".md">>],
        [title |-> "Authentication",
         path |-> <<"configuration", "/", "authentication", ".md">>] >>],
    [title |-> "Camera System",
     children |-> <<
        [title |-> "Hardware Interface",
         path |-> <<"camera", "/", "hardware-interface", ".md">>],
        [title |-> "Streaming",
         path |-> <<"camera", "/", "streaming", ".md">>],
        [title |-> "Recording",
         path |-> <<"camera", "/", "recording", ".md">>],
        [title |-> "Image Processing",
         path |-> <<"camera", "/", "image-processing", ".md">>] >>],
    [title |-> "Operations",
     children |-> <<
        [title |-> "Build and Deploy",
         path |-> <<"operations", "/", "build-and-deploy", ".md">>],
        [title |-> "Build & Deploy (Alt)",
         path |-> <<"operations", "/", "build-deploy", ".md">>],
        [title |-> "Monitoring",
         path |-> <<"operations", "/", "monitoring", ".md">>],
        [title |-> "Performance",
         path |-> <<"operations", "/", "performance", ".md">>],
        [title |-> "Troubleshooting",
         path |-> <<"operations", "/", "troubleshooting", ".md">>] >>],
    [title |-> "Security",
     children |-> <<
        [title |-> "Authentication",
         path |-> <<"security", "/", "authentication", ".md">>],
        [title |-> "Permissions",
         path |-> <<"security", "/", "permissions", ".md">>],
        [title |-> "SSL Certificates",
         path |-> <<"security", "/", "ssl-certificates", ".md">>] >>],
    [title |-> "Testing",
     children |-> <<
        [title |-> "Strategy",
         path |-> <<"testing", "/", "testing-strategy", ".md">>],
        [title |-> "Strategies",
         path |-> <<"testing", "/", "strategies", ".md">>],
        [title |-> "Test Cases",
         path |-> <<"testing", "/", "test-cases", ".md">>],
        [title |-> "Validation",
         path |-> <<"testing", "/", "validation", ".md">>] >>],
    [title |-> "Integration",
     children |-> <<
        [title |-> "ONVIF Protocol",
         path |-> <<"integration", "/", "onvif-protocol", ".md">>],
        [title |-> "Third Party",
         path |-> <<"integration", "/", "third-party", ".md">>] >>],
    [title |-> "Reference",
     children |-> <<
        [title |-> "Glossary",
         path |-> <<"reference", "/", "glossary", ".md">>],
        [title |-> "Requirements",
         path |-> <<"reference", "/", "requirements", ".md">>],
        [title |-> "State Observables",
         path |-> <<"reference", "/", "state-observables", ".md">>] >>],
    [title |-> "Releases",
     children |-> <<
        [title |-> "Changelog",
         path |-> <<"releases", "/", "CHANGELOG", ".md">>] >>],
    [title |-> "Glossary",
     path |-> <<"glossary", ".md">>]
  >>

-----------------------------------------------------------------------------
(* Strings and paths *)

\* The string a path stands for.
RECURSIVE Join(_)
Join(chunks) ==
  IF Len(chunks) = 0 THEN "" ELSE Head(chunks) \o Join(Tail(chunks))

\* s.replace(old, new, 1): the first occurrence only.
ReplaceFirst(s, old, new) ==
  LET hits == {i \in 1..Len(s) : s[i] = old}
  IN  IF hits = {} THEN s
      ELSE LET i == CHOOSE h \in hits : \A g \in hits : h <= g
           IN  SubSeq(s, 1, i - 1) \o new \o SubSeq(s, i + 1, Len(s))

\* s.replace(old, new): every occurrence, left to right, no rescan.
RECURSIVE Replace(_, _, _)
Replace(s, old, new) ==
  LET hits == {i \in 1..Len(s) : s[i] = old}
  IN  IF hits = {} THEN s
      ELSE LET i == CHOOSE h \in hits : \A g \in hits : h <= g
           IN  SubSeq(s, 1, i - 1) \o new
                 \o Replace(SubSeq(s, i + 1, Len(s)), old, new)

\* s.count(sub)
Count(s, sub) == Cardinality({i \in 1..Len(s) : s[i] = sub})

\* The html_path of the source's last component only.
HtmlPathFlat(path) ==
  Replace(SubSeq(path, Len(path) - 1, Len(path)), ".md", <<".html">>)

\* item["path"].replace(".md", ".html")
HtmlPath(path) == Replace(path, ".md", <<".html">>)

\* '../' * depth, also at depth 0.
BasePathNoDot(html_path) ==
  [i \in 1..Count(html_path, "/") |-> "../"]

\* '../' * depth if depth > 0 else './'
BasePath(html_path) ==
  LET depth == Count(html_path, "/")
  IN  IF depth > 0 THEN [i \in 1..depth |-> "../"] ELSE <<"./">>

\* The lines put one after the other, each begun with the separator; the
\* list is halved so that the evaluation stays shallow.
RECURSIVE SepLines(_)
SepLines(lines) ==
  IF Len(lines) = 0 THEN << >>
  ELSE IF Len(lines) = 1
  THEN (IF Len(lines[1]) = 0 THEN <<"\n">>
        ELSE <<"\n" \o Head(lines[1])>> \o Tail(lines[1]))
  ELSE LET half == Len(lines) \div 2
       IN  SepLines(SubSeq(lines, 1, half))
             \o SepLines(SubSeq(lines, half + 1, Len(lines)))

\* "\n".join(html)
JoinLines(lines) ==
  IF Len(lines) = 0 THEN << >>
  ELSE lines[1] \o SepLines(Tail(lines))

-----------------------------------------------------------------------------
(* Navigation *)

\* The Page nodes below nav_items in the order process_nav_item reaches them.
RECURSIVE NavPages(_)
NavPages(items) ==
  IF Len(items) = 0 THEN << >>
  ELSE LET item == Head(items)
       IN  (IF "children" \in DOMAIN item THEN NavPages(item.children)
            ELSE IF "path" \in DOMAIN item THEN <<item>>
            ELSE << >>)
           \o NavPages(Tail(items))

Pages == NavPages(NAV_STRUCTURE)

NumPages == Len(Pages)

NumItems == Len(NAV_STRUCTURE)

\* is_active decided on the titles instead of the output paths.
IsActiveByTitle(item, html_path, current_path) ==
  \E i \in 1..NumPages :
    HtmlPath(Pages[i].path) = current_path /\ Pages[i].title = item.title

\* is_active = (html_path == current_path)
IsActive(item, html_path, current_path) == (html_path = current_path)

\* The three lines a Page node adds to the navigation.
NavItemLines(item, current_path, depth, base_path) ==
  LET path == IF "path" \in DOMAIN item THEN item.path ELSE << >>
      html_path == HtmlPath(path)
      is_active == IsActive(item, html_path, current_path)
      active_class == IF is_active THEN <<" active">> ELSE << >>
  IN  << <<"<li class=\"nav-item depth-" \o ToString(depth)>>
            \o active_class \o <<"\">">>,
         <<"<a href=\"" \o Join(base_path) \o Join(html_path) \o "\">"
             \o item.title \o "</a>">>,
         <<"</li>">> >>

\* The list html of generate_nav_html, one element per html.append.
RECURSIVE NavLines(_, _, _, _)
NavLines(nav_items, current_path, depth, base_path) ==
  IF Len(nav_items) = 0 THEN << >>
  ELSE LET item == Head(nav_items)
       IN  (IF "children" \in DOMAIN item
            THEN << <<"<li class=\"nav-folder depth-" \o ToString(depth)
                        \o "\">">>,
                    <<"<span class=\"folder-title\">" \o item.title
                        \o "</span>">>,
                    <<"<ul class=\"nav-submenu\">">>,
                    JoinLines(NavLines(item.children, current_path,
                                       depth + 1, base_path)),
                    <<"</ul>">>,
                    <<"</li>">> >>
            ELSE NavItemLines(item, current_path, depth, base_path))
           \o NavLines(Tail(nav_items), current_path, depth, base_path)

generate_nav_html(nav_items, current_path, depth, base_path) ==
  JoinLines(NavLines(nav_items, current_path, depth, base_path))

-----------------------------------------------------------------------------
(* Template and Markdown conversion *)

get_html_template ==
  << "<!DOCTYPE html><html lang=\"en\"><head>...<title>",
     "{{TITLE}}",
     " - C Pro Camera Server Documentation</title>...<link href=\"",
     "{{BASE_PATH}}",
     "assets/style.css\">...</head><body>...<h1><a href=\"",
     "{{BASE_PATH}}",
     "index.html\">C Pro Docs</a></h1>...<ul class=\"nav-menu\">",
     "{{NAVIGATION}}",
     "</ul></nav></aside>...<div class=\"content-wrapper\">",
     "{{CONTENT}}",
     "</div><footer>...</footer></main>...</body></html>" >>

Placeholders == {"{{TITLE}}", "{{BASE_PATH}}", "{{NAVIGATION}}", "{{CONTENT}}"}

\* re.sub of the fenced mermaid blocks (a backquote is written ' here): the
\* chunks "'''mermaid\n", body, "\n'''" become the div holding the body.
RECURSIVE replace_mermaid(_)
replace_mermaid(md) ==
  IF Len(md) = 0 THEN << >>
  ELSE IF Len(md) >= 3 /\ md[1] = "'''mermaid\n" /\ md[3] = "\n'''"
       THEN <<"<div class=\"mermaid\">\n", md[2], "\n</div>">>
              \o replace_mermaid(SubSeq(md, 4, Len(md)))
       ELSE <<Head(md)>> \o replace_mermaid(Tail(md))

\* md.convert: a raw HTML block passes through, every other block of text
\* becomes a paragraph.
RECURSIVE MarkdownConvert(_)
MarkdownConvert(md) ==
  IF Len(md) = 0 THEN << >>
  ELSE IF Len(md) >= 3 /\ md[1] = "<div class=\"mermaid\">\n"
       THEN SubSeq(md, 1, 3) \o MarkdownConvert(SubSeq(md, 4, Len(md)))
       ELSE <<"<p>", Head(md), "</p>">> \o MarkdownConvert(Tail(md))

convert_md_to_html(md_content) == MarkdownConvert(replace_mermaid(md_content))

\* The placeholders filled content first, title last.
FillTemplateContentFirst(template, title, base_path, nav_html, html_content) ==
  LET p1 == Replace(template, "{{CONTENT}}", html_content)
      p2 == Replace(p1, "{{NAVIGATION}}", nav_html)
      p3 == Replace(p2, "{{BASE_PATH}}", base_path)
      p4 == Replace(p3, "{{TITLE}}", <<title>>)
  IN  p4

\* The four template.replace calls of process_file.
FillTemplate(template, title, base_path, nav_html, html_content) ==
  LET p1 == Replace(template, "{{TITLE}}", <<title>>)
      p2 == Replace(p1, "{{BASE_PATH}}", base_path)
      p3 == Replace(p2, "{{NAVIGATION}}", nav_html)
      p4 == Replace(p3, "{{CONTENT}}", html_content)
  IN  p4

\* page_html of process_file (lines 301-319) for one Page node.
RenderPage(html_path, title, md_content) ==
  LET base_path == BasePath(html_path)
      html_content == convert_md_to_html(md_content)
      nav_html == generate_nav_html(NAV_STRUCTURE, html_path, 0, base_path)
  IN  FillTemplate(get_html_template, title, base_path, nav_html, html_content)

-----------------------------------------------------------------------------
(* The file system: a directory maps the paths of its files to their text *)

AssetFile == <<"assets", "/", "style.css">>

NoJekyll == <<".nojekyll">>

\* The input.  The files of docs/ whose presence and text vary, in the order
\* they are added as NumVolatile grows; every other source of NAV_STRUCTURE
\* exists and holds PlainDoc.  TokenDoc holds every placeholder token of the
\* template and a fenced mermaid block.
VolatileFiles ==
  << <<"api", "/", "websocket-api", ".md">>,
     AssetFile,
     <<"index", ".md">>,
     <<"architecture", "/", "decisions", "/", "ADR-0001-nim-language", ".md">>,
     <<"glossary", ".md">>,
     <<"reference", "/", "glossary", ".md">> >>

Volatile ==
  {VolatileFiles[i] : i \in 1..NumVolatile}

PlainDoc == <<"Some text.">>

TokenDoc ==
  <<"{{TITLE}}", "{{BASE_PATH}}", "'''mermaid\n", "graph TD; A-->B", "\n'''",
    "{{NAVIGATION}}", "{{CONTENT}}">>

Texts(p) ==
  IF p = AssetFile THEN {<<"body{}">>, <<"body{margin:0}">>}
  ELSE {PlainDoc, TokenDoc}

AllTexts == UNION {Texts(p) : p \in Volatile}

EmptyDir == [p \in {} |-> << >>]

PagePaths == {Pages[i].path : i \in 1..NumPages}

\* RenderPage is a pure function: its values for the pages and the texts
\* of the model are computed once.
RenderedPages ==
  [k \in {<<HtmlPath(Pages[i].path), Pages[i].title, text>> :
            i \in 1..NumPages, text \in {PlainDoc, TokenDoc}} |->
     RenderPage(k[1], k[2], k[3])]

PageHtml(html_path, title, md_content) ==
  IF <<html_path, title, md_content>> \in DOMAIN RenderedPages
  THEN RenderedPages[<<html_path, title, md_content>>]
  ELSE RenderPage(html_path, title, md_content)

IsAsset(p) == Len(p) > 1 /\ p[1] = "assets" /\ p[2] = "/"

\* open(path, 'a'): the text is added to what the file holds.
AppendFile(fs, path, text) ==
  [p \in DOMAIN fs \cup {path} |->
     IF p = path THEN (IF p \in DOMAIN fs THEN fs[p] ELSE << >>) \o text
     ELSE fs[p]]

\* open(path, 'w') ... f.write(text)
WriteFile(fs, path, text) ==
  [p \in DOMAIN fs \cup {path} |-> IF p = path THEN text ELSE fs[p]]

\* Path.touch()
Touch(fs, path) ==
  IF path \in DOMAIN fs THEN fs ELSE WriteFile(fs, path, << >>)

\* shutil.copytree(assets_src, assets_dst, dirs_exist_ok=True)
CopyTree(src, dst) ==
  LET files == {p \in DOMAIN src : IsAsset(p)}
  IN  [p \in DOMAIN dst \cup files |-> IF p \in files THEN src[p] ELSE dst[p]]

\* The output directory removed and made anew before the build.
PrepareOutputClean(src, dst) ==
  LET touched == Touch(EmptyDir, NoJekyll)
  IN  IF \E p \in DOMAIN src : IsAsset(p) THEN CopyTree(src, touched)
      ELSE touched

\* Lines 262-277 of build_site: the directories are made if missing
\* (exist_ok, nothing is removed), the marker file is touched, the assets
\* are copied over the output's.
PrepareOutput(src, dst) ==
  LET touched == Touch(dst, NoJekyll)
  IN  IF \E p \in DOMAIN src : IsAsset(p) THEN CopyTree(src, touched)
      ELSE touched

-----------------------------------------------------------------------------
(* The traversal.  A build state st holds the output directory, the list   *)
(* processed_files and the exception under way, if any; failure is the     *)
(* I/O error the environment has in store: a kind and the source it hits.  *)

NoFault == [kind |-> "none", path |-> << >>]

\* The exception handled by removing the output written so far.
RaiseWithCleanup(st, kind, md_path) ==
  [st EXCEPT !.site = EmptyDir, !.fault = [kind |-> kind, path |-> md_path]]

\* An exception leaves process_file: nothing in build.py catches it.
Raise(st, kind, md_path) ==
  [st EXCEPT !.fault = [kind |-> kind, path |-> md_path]]

\* process_file(md_path, html_path, title)
process_file(st, src, md_path, html_path, title, failure) ==
  IF md_path \notin DOMAIN src \/ (failure.path = md_path /\ failure.kind = "read")
  THEN \* open(md_path, 'r') or f.read() raises
       Raise(st, "read", md_path)
  ELSE IF failure.path = md_path /\ failure.kind = "write"
  THEN \* the output file is opened, and so emptied, and f.write raises
       Raise([st EXCEPT !.site = WriteFile(st.site, html_path, << >>)],
             "write", md_path)
  ELSE [st EXCEPT !.site = WriteFile(st.site, html_path,
                                     PageHtml(html_path, title, src[md_path]))]

\* Every Page node's source taken to exist.
ExistsAlways(src, md_path) == TRUE

\* md_path.exists()
Exists(src, md_path) == md_path \in DOMAIN src

\* The leaf done with the path recorded whether or not the source exists.
process_leaf_record_all(item, st, src, failure) ==
  IF "path" \in DOMAIN item
  THEN LET done == IF Exists(src, item.path)
                   THEN process_file(st, src, item.path, HtmlPath(item.path),
                                     item.title, failure)
                   ELSE st
       IN  IF done.fault.kind = "none"
           THEN [done EXCEPT !.processed_files = Append(@, item.path)]
           ELSE done
  ELSE st

\* The else branch of process_nav_item, lines 290-295.
process_leaf(item, st, src, failure) ==
  IF "path" \in DOMAIN item /\ Exists(src, item.path)
  THEN LET done == process_file(st, src, item.path, HtmlPath(item.path),
                                item.title, failure)
       IN  IF done.fault.kind = "none"
           THEN [done EXCEPT !.processed_files = Append(@, item.path)]
           ELSE done
  ELSE st

\* process_nav_item for each element of items, in order; an exception
\* under way skips what is left.
RECURSIVE process_nav_items(_, _, _, _)
process_nav_items(items, st, src, failure) ==
  IF Len(items) = 0 \/ st.fault.kind # "none" THEN st
  ELSE LET item == Head(items)
           done == IF "children" \in DOMAIN item
                   THEN process_nav_items(item.children, st, src, failure)
                   ELSE process_leaf(item, st, src, failure)
       IN  process_nav_items(Tail(items), done, src, failure)

process_nav_item(item, st, src, failure) ==
  process_nav_items(<<item>>, st, src, failure)

-----------------------------------------------------------------------------
(* State *)

VARIABLES
  docs,             \* docs/: source path -> Markdown text (or asset text)
  site,             \* site/: output path -> text
  status,           \* "idle", "running", "done" or "aborted"
  pos,              \* index in NAV_STRUCTURE of the loop of lines 329-330
  processed_files,  \* the list processed_files of the build
  reported,         \* the count printed by "Build complete!", or -1
  fault,            \* the exception that ended the build, or NoFault
  runs,             \* build_site() invocations so far
  edits,            \* changes made to docs/ so far
  docs0,            \* docs/ as it was when the last build started
  site0,            \* site/ as it was when the last build started
  rerun             \* the last build started right after a completed
                    \* build of the same docs/

vars ==
  <<docs, site, status, pos, processed_files, reported, fault, runs, edits,
    docs0, site0, rerun>>

Init ==
  /\ \E present \in SUBSET Volatile :
       \E text \in {f \in [present -> AllTexts] :
                      \A p \in present : f[p] \in Texts(p)} :
         docs = [p \in (PagePaths \ Volatile) \cup present |->
                   IF p \in present THEN text[p] ELSE PlainDoc]
  /\ site = EmptyDir
  /\ status = "idle"
  /\ pos = 0
  /\ processed_files = << >>
  /\ reported = -1
  /\ fault = NoFault
  /\ runs = 0
  /\ edits = 0
  /\ docs0 = EmptyDir
  /\ site0 = EmptyDir
  /\ rerun = FALSE

\* build_site() up to the traversal: lines 262-283.
StartBuild ==
  /\ status \in {"idle", "done"}
  /\ runs < MaxRuns
  /\ runs' = runs + 1
  /\ docs0' = docs
  /\ site0' = site
  /\ rerun' = (status = "done" /\ docs = docs0)
  /\ site' = PrepareOutput(docs, site)
  /\ processed_files' = << >>
  /\ pos' = 1
  /\ status' = "running"
  /\ reported' = -1
  /\ UNCHANGED <<docs, fault, edits>>

\* The effect of one round of the loop of lines 329-330 under failure.
Traverse(failure) ==
  \E st \in {process_nav_item(NAV_STRUCTURE[pos],
                               [site |-> site,
                                processed_files |-> processed_files,
                                fault |-> NoFault],
                               docs, failure)} :
      /\ site' = st.site
      /\ processed_files' = st.processed_files
      /\ fault' = st.fault
      /\ IF st.fault.kind = "none"
         THEN pos' = pos + 1 /\ status' = "running"
         ELSE pos' = pos /\ status' = "aborted"
      /\ UNCHANGED <<docs, reported, runs, edits, docs0, site0, rerun>>

\* process_nav_item(item) for the next top-level item, no I/O error.
ProcessNavItem ==
  /\ status = "running"
  /\ pos <= NumItems
  /\ Traverse(NoFault)

\* The same with an I/O error at one of the item's existing sources.
ProcessNavItemFails ==
  /\ status = "running"
  /\ pos <= NumItems
  /\ \E kind \in {"read", "write"} :
       \E md_path \in {p \in DOMAIN docs :
                         \E i \in 1..Len(NavPages(<<NAV_STRUCTURE[pos]>>)) :
                           NavPages(<<NAV_STRUCTURE[pos]>>)[i].path = p} :
         Traverse([kind |-> kind, path |-> md_path])

\* Lines 332-333: the traversal is over, the count is printed.
FinishBuild ==
  /\ status = "running"
  /\ pos = NumItems + 1
  /\ reported' = Len(processed_files)
  /\ status' = "done"
  /\ UNCHANGED <<docs, site, pos, processed_files, fault, runs, edits, docs0,
                 site0, rerun>>

\* Between two builds a file of docs/ is written ...
WriteSource ==
  /\ status = "done"
  /\ runs < MaxRuns
  /\ edits < MaxEdits
  /\ \E p \in Volatile : \E text \in Texts(p) :
       /\ p \in DOMAIN docs => docs[p] # text
       /\ docs' = WriteFile(docs, p, text)
  /\ edits' = edits + 1
  /\ UNCHANGED <<site, status, pos, processed_files, reported, fault, runs,
                 docs0, site0, rerun>>

\* ... or removed.
RemoveSource ==
  /\ status = "done"
  /\ runs < MaxRuns
  /\ edits < MaxEdits
  /\ \E p \in Volatile \cap DOMAIN docs :
       docs' = [q \in DOMAIN docs \ {p} |-> docs[q]]
  /\ edits' = edits + 1
  /\ UNCHANGED <<site, status, pos, processed_files, reported, fault, runs,
                 docs0, site0, rerun>>

\* Builds that run undisturbed, with docs/ changing between them.
Next ==
  \/ StartBuild
  \/ ProcessNavItem
  \/ FinishBuild
  \/ WriteSource
  \/ RemoveSource

Spec == Init /\ [][Next]_vars

\* Builds of an unchanging docs/ that an I/O error may end.
NextFault ==
  \/ StartBuild
  \/ ProcessNavItem
  \/ ProcessNavItemFails
  \/ FinishBuild

SpecFault == Init /\ [][NextFault]_vars

-----------------------------------------------------------------------------
(* What the claims speak of *)

\* The source path with its last chunk, the Markdown suffix, swapped for
\* the HTML suffix.
ExpectedOut(path) == SubSeq(path, 1, Len(path) - 1) \o <<".html">>

\* The Page nodes (by index in Pages) whose source is a file of dir.
Existing(dir) == {i \in 1..NumPages : Pages[i].path \in DOMAIN dir}

\* The HTML pages of a directory.
HtmlFiles(dir) == {p \in DOMAIN dir : p[Len(p)] = ".html"}

Range(s) == {s[i] : i \in 1..Len(s)}

\* The output paths of the pages the last build recorded as processed.
Written == {ExpectedOut(p) : p \in Range(processed_files)}

\* The file at path is the same in both directories, or in neither.
SameFile(a, b, path) ==
  /\ path \in DOMAIN a <=> path \in DOMAIN b
  /\ path \in DOMAIN a => a[path] = b[path]

\* The index in Pages of the node with this source path (0 if none).
PageIndex(path) ==
  IF \E i \in 1..NumPages : Pages[i].path = path
  THEN CHOOSE i \in 1..NumPages : Pages[i].path = path
  ELSE 0

\* The number of directories above an output path: its chunks are the
\* directory names, each followed by a separator, the name and the suffix.
DirDepth(out) == (Len(out) - 2) \div 2

\* The chunks that open the entry of a Page node in the navigation.
LiOpen ==
  {pre \o "<li class=\"nav-item depth-" \o ToString(d) :
     pre \in {"", "\n"}, d \in 0..NumPages}

\* The positions in a page where the entry of a Page node opens, in order.
EntryPositions(page) ==
  SelectSeq([i \in 1..Len(page) |-> i], LAMBDA i : page[i] \in LiOpen)

\* The entry opening at position i carries the active marker.
HasActiveMarker(page, i) == i < Len(page) /\ page[i + 1] = " active"

RECURSIVE Concat(_)
Concat(texts) ==
  IF Len(texts) = 0 THEN << >> ELSE Head(texts) \o Concat(Tail(texts))

\* The template with every placeholder chunk replaced, in one pass, by the
\* value given for it.
Substituted(template, values) ==
  Concat([i \in 1..Len(template) |->
            IF template[i] \in DOMAIN values THEN values[template[i]]
            ELSE <<template[i]>>])

\* The page expected for Page node i with source text md_content.
ExpectedPage ==
  [i \in 1..NumPages, md_content \in {PlainDoc, TokenDoc} |->
     LET out == ExpectedOut(Pages[i].path)
         base == IF DirDepth(out) = 0 THEN <<"./">>
                 ELSE [d \in 1..DirDepth(out) |-> "../"]
     IN  Substituted(get_html_template,
           ("{{TITLE}}" :> <<Pages[i].title>>)
           @@ ("{{BASE_PATH}}" :> base)
           @@ ("{{NAVIGATION}}" :> generate_nav_html(NAV_STRUCTURE, out, 0, base))
           @@ ("{{CONTENT}}" :> convert_md_to_html(md_content)))]

HasPlaceholder(text) == \E i \in 1..Len(text) : text[i] \in Placeholders

\* C1: after a completed build every Page node whose source existed has a
\* file at its source path with ".md" swapped for ".html", and these files
\* are one per node: into an empty output directory the build puts as many
\* HTML files as there are such nodes, at exactly those paths.
C1_OnePagePerSource ==
  status = "done" =>
    /\ \A i \in Existing(docs0) :
         /\ ExpectedOut(Pages[i].path) \in DOMAIN site
         /\ Len(site[ExpectedOut(Pages[i].path)]) > 1
         /\ site[ExpectedOut(Pages[i].path)][2] = Pages[i].title
    /\ HtmlFiles(site0) = {} =>
         /\ HtmlFiles(site) = {ExpectedOut(Pages[i].path) : i \in Existing(docs0)}
         /\ Cardinality(HtmlFiles(site)) = Cardinality(Existing(docs0))

C1_Witness ==
  /\ status = "done"
  /\ runs = 1
  /\ <<"api", "/", "websocket-api", ".html">> \in DOMAIN site
  /\ <<"architecture", "/", "decisions", "/", "ADR-0003-observable-state",
       ".html">> \in DOMAIN site
  /\ <<"glossary", ".html">> \in DOMAIN site

\* C2: the count a completed build reports, the length of processed_files,
\* is the number of Page nodes, at all levels, whose source existed.
C2_ProcessedCount ==
  status = "done" =>
    /\ reported = Len(processed_files)
    /\ reported = Cardinality(Existing(docs0))

C2_Witness ==
  /\ status = "done"
  /\ reported = NumPages - 1
  /\ <<"api", "/", "websocket-api", ".md">> \notin DOMAIN docs0

\* C3: a missing source never ends the build: the exception that ends one
\* is about a source that exists; and a completed build has written
\* nothing at the missing page's output path, has not recorded the page,
\* and has built and recorded every page whose source exists.
C3_MissingSourceSkipped ==
  /\ status = "aborted" => fault.path \in DOMAIN docs0
  /\ status = "done" =>
       /\ \A i \in (1..NumPages) \ Existing(docs0) :
            /\ SameFile(site, site0, ExpectedOut(Pages[i].path))
            /\ Pages[i].path \notin Range(processed_files)
       /\ \A i \in Existing(docs0) :
            /\ ExpectedOut(Pages[i].path) \in DOMAIN site
            /\ site[ExpectedOut(Pages[i].path)] = ExpectedPage[i, docs0[Pages[i].path]]
            /\ Pages[i].path \in Range(processed_files)

C3_Witness ==
  /\ status = "done"
  /\ <<"api", "/", "websocket-api", ".md">> \notin DOMAIN docs0
  /\ <<"api", "/", "websocket-api", ".html">> \notin DOMAIN site
  /\ <<"api", "/", "http-api", ".html">> \in DOMAIN site
  /\ reported = NumPages - 1

\* C4: a build that follows a completed build of the same docs/ leaves the
\* output directory as it found it: no file's text changes, none is added
\* or removed.
C4_RebuildIdentical ==
  (status = "done" /\ rerun) => site = site0

C4_Witness ==
  /\ status = "done"
  /\ rerun
  /\ runs = 2
  /\ AssetFile \in DOMAIN site
  /\ Cardinality(HtmlFiles(site)) = NumPages

\* C5 as claimed: after a build the HTML pages of the output directory are
\* exactly the pages this invocation wrote.
C5_OnlyThisBuildsPages ==
  status = "done" => HtmlFiles(site) = Written

\* C5 as amended: the build deletes nothing: after it the HTML pages are
\* those already there together with those it wrote, and a page it did not
\* write, such as one whose source was removed, is there unchanged.
C5_StalePagesKept ==
  status = "done" =>
    /\ HtmlFiles(site) = HtmlFiles(site0) \cup Written
    /\ \A p \in HtmlFiles(site0) \ Written : site[p] = site0[p]

C5_Witness ==
  /\ status = "done"
  /\ runs = 2
  /\ <<"api", "/", "websocket-api", ".md">> \notin DOMAIN docs0
  /\ <<"api", "/", "websocket-api", ".html">> \in HtmlFiles(site) \ Written

\* C6: in every page of a completed build the navigation has one entry per
\* Page node, in order; exactly one entry carries the active marker, the
\* one of the node whose output path is the page's own, and no other does.
C6_OneActiveEntry ==
  status = "done" =>
    \A p \in Existing(docs0) :
      LET out == ExpectedOut(Pages[p].path)
          page == site[out]
          entries == EntryPositions(page)
      IN  /\ Len(entries) = NumPages
          /\ \A k \in 1..NumPages :
               HasActiveMarker(page, entries[k])
                 <=> ExpectedOut(Pages[k].path) = out
          /\ Cardinality({k \in 1..NumPages :
                            HasActiveMarker(page, entries[k])}) = 1
          /\ Cardinality({i \in 1..Len(page) : page[i] = " active"}) = 1

C6_Witness ==
  /\ status = "done"
  /\ <<"glossary", ".html">> \in DOMAIN site
  /\ <<"reference", "/", "glossary", ".html">> \in DOMAIN site
  /\ LET page == site[<<"reference", "/", "glossary", ".html">>]
     IN  \E i \in 1..Len(page) : page[i] = " active"

\* C7: in every page of a completed build the base path is "../" once per
\* separator of the output path, and "./" when there is none: "../" for
\* api/websocket-api.html, "./" for index.html.
C7_BasePath ==
  status = "done" =>
    /\ \A p \in Existing(docs0) :
         LET out == ExpectedOut(Pages[p].path)
             page == site[out]
             seps == Cardinality({i \in 1..Len(out) : out[i] = "/"})
             base == IF seps = 0 THEN <<"./">> ELSE [d \in 1..seps |-> "../"]
         IN  /\ page[3] = get_html_template[3]
             /\ SubSeq(page, 4, 3 + Len(base)) = base
             /\ page[4 + Len(base)] = get_html_template[5]
    /\ <<"api", "/", "websocket-api", ".html">> \in Written =>
         SubSeq(site[<<"api", "/", "websocket-api", ".html">>], 3, 5)
           = <<get_html_template[3], "../", get_html_template[5]>>
    /\ <<"index", ".html">> \in Written =>
         SubSeq(site[<<"index", ".html">>], 3, 5)
           = <<get_html_template[3], "./", get_html_template[5]>>

C7_Witness ==
  /\ status = "done"
  /\ <<"api", "/", "websocket-api", ".html">> \in Written
  /\ <<"index", ".html">> \in Written
  /\ <<"api", "/", "examples", "/", "python-client", ".html">> \in Written

\* C8: every page of a completed build is the template with each of the
\* four placeholders replaced by its value (title, base path, navigation,
\* content), each value put in once and left as it is.
C8_TemplateFilled ==
  status = "done" =>
    \A i \in Existing(docs0) :
      site[ExpectedOut(Pages[i].path)] = ExpectedPage[i, docs0[Pages[i].path]]

C8_Witness ==
  /\ status = "done"
  /\ \E i \in Existing(docs0) : docs0[Pages[i].path] = TokenDoc
  /\ \E i \in Existing(docs0) : docs0[Pages[i].path] = PlainDoc

\* C9 as claimed: a page whose rendered content holds a placeholder token
\* does not carry the content unchanged.
C9_ContentTokensSubstituted ==
  status = "done" =>
    \A i \in Existing(docs0) :
      LET content == convert_md_to_html(docs0[Pages[i].path])
          page == site[ExpectedOut(Pages[i].path)]
      IN  HasPlaceholder(content) =>
            SubSeq(page, Len(page) - Len(content), Len(page) - 1) # content

\* C9 as amended: the content is put in last and what is put in is not
\* scanned again, so a page whose rendered content holds placeholder
\* tokens carries the content unchanged, tokens included.
C9_ContentKeptVerbatim ==
  status = "done" =>
    \A i \in Existing(docs0) :
      LET content == convert_md_to_html(docs0[Pages[i].path])
          page == site[ExpectedOut(Pages[i].path)]
      IN  HasPlaceholder(content) =>
            /\ SubSeq(page, Len(page) - Len(content), Len(page) - 1) = content
            /\ page[Len(page)] = get_html_template[Len(get_html_template)]
            /\ \A t \in Placeholders :
                 Cardinality({j \in 1..Len(page) : page[j] = t})
                   = Cardinality({j \in 1..Len(content) : content[j] = t})

C9_Witness ==
  /\ status = "done"
  /\ <<"api", "/", "websocket-api", ".md">> \in DOMAIN docs0
  /\ docs0[<<"api", "/", "websocket-api", ".md">>] = TokenDoc
  /\ \E j \in 1..Len(site[<<"api", "/", "websocket-api", ".html">>]) :
       site[<<"api", "/", "websocket-api", ".html">>][j] = "{{CONTENT}}"

\* C10: pages are processed in the depth-first order of the configuration,
\* and a build ended by an I/O error at some page stops there with nothing
\* undone: every existing page before it in that order is written and
\* recorded, no page after it is touched, and no count is reported.
C10_AbortKeepsPartialOutput ==
  /\ Pages[1].path = <<"index", ".md">>
  /\ Pages[NumPages].path = <<"glossary", ".md">>
  /\ PageIndex(<<"api", "/", "README", ".md">>)
       = PageIndex(<<"architecture", "/", "decisions", "/",
                     "ADR-0003-observable-state", ".md">>) + 1
  /\ \A a, b \in 1..Len(processed_files) :
       a < b => PageIndex(processed_files[a]) < PageIndex(processed_files[b])
  /\ status = "aborted" =>
       LET k == PageIndex(fault.path)
       IN  /\ k > 0
           /\ reported = -1
           /\ \A i \in Existing(docs0) :
                i < k =>
                  /\ ExpectedOut(Pages[i].path) \in DOMAIN site
                  /\ site[ExpectedOut(Pages[i].path)]
                       = ExpectedPage[i, docs0[Pages[i].path]]
           /\ Range(processed_files)
                = {Pages[i].path : i \in {j \in Existing(docs0) : j < k}}
           /\ \A i \in 1..NumPages :
                i > k => SameFile(site, site0, ExpectedOut(Pages[i].path))

C10_Witness ==
  /\ status = "aborted"
  /\ runs = 1
  /\ fault = [kind |-> "write", path |-> <<"api", "/", "http-api", ".md">>]
  /\ <<"api", "/", "websocket-api", ".html">> \in DOMAIN site
  /\ <<"api", "/", "rtsp-streaming", ".html">> \notin DOMAIN site
====
